---------------------------- MODULE Spec2Model ----------------------------
(***************************************************************************)
(* Account-hierarchy aggregation of the sunburst chart                     *)
(* (plot_accounts_sunburst and its nested aggregate_balance_for_guid in    *)
(* src/gnucash_financial_dashboard/plotting.py, lines 24-41).              *)
(*                                                                         *)
(* The data frame account_balances is modelled by its three columns that   *)
(* the aggregation reads or writes: the row order (rows, the account_guid  *)
(* column top to bottom), parent_guid and amount.  An amount is a sequence *)
(* of length 0 (NaN, no transaction in the time frame) or 1 (a number, in  *)
(* minor currency units; the rounding of binary floating point is not      *)
(* modelled).  The recursion of aggregate_balance_for_guid is modelled by  *)
(* an explicit call stack, one frame per active call.                      *)
(***************************************************************************)
EXTENDS Integers, Sequences, FiniteSets, TLC

\* ------------------------------------------------------------------ bounds

\* The largest number of accounts (rows of account_balances) considered.
MaxAccounts == 3

\* The guids an account may carry; the first MaxAccounts of them are used.
GuidNames == <<"a", "b", "c", "d", "e", "f">>

AllGuids == {GuidNames[i] : i \in 1..MaxAccounts}

\* The numbers a known amount may be (an account with transactions in the
\* time frame); 0 is a known amount, distinct from NaN.
KnownAmounts == {-2, 0, 1}

\* The one known amount of the frames that are taken in every row order,
\* and of those whose walk is followed to its end under fairness.
OrderAmounts == {1}

\* ------------------------------------------------------- values of columns

\* A parent_guid that occurs nowhere as account_guid: the parent of the
\* topmost account of the chosen type is an account of another type (ROOT).
Outside == "outside"

\* The empty string the root's parent_guid is set to.
EmptyStr == ""

\* NaN: the amount of an account the groupby/join found no transaction for.
NaN == <<>>

Num(v) == <<v>>

isna(x) == x = NaN

\* ------------------------------------------------------------------- state

VARIABLES
    rows,          \* account_balances.account_guid, in row order
    parent_guid,   \* account_balances.parent_guid, by account_guid
    amount,        \* account_balances.amount, by account_guid
    pc,            \* where plot_accounts_sunburst stands, or how it ended
    root_guid,     \* the local root_guid (EmptyStr before line 24)
    stack,         \* the active calls of aggregate_balance_for_guid
    calls,         \* how often aggregate_balance_for_guid was called per guid
    run,           \* 1: the first aggregation, 2: the one on its output
    input,         \* the columns as they were when the first run started
    first          \* the columns as the first run left them

vars == <<rows, parent_guid, amount, pc, root_guid, stack, calls, run, input, first>>

\* ----------------------------------------------------------------- helpers

Range(s) == {s[i] : i \in 1..Len(s)}

\* The account guids of the frame (account_balances.account_guid).
account_guid == Range(rows)

\* Every row order of every set of accounts: the sequences over S without
\* repetition.
RowOrders(S) ==
    {s \in UNION {[1..k -> S] : k \in 0..Cardinality(S)} :
        \A i, j \in 1..Len(s) : i # j => s[i] # s[j]}

\* The frames of 0..MaxAccounts rows in which the account of row i carries
\* the i-th guid name.  The code compares guids for equality only, so every
\* frame is one of these up to the names of its guids.
NamedByRow == {SubSeq(GuidNames, 1, k) : k \in 0..MaxAccounts}

\* The subsequence of rows whose guid satisfies the boolean mask (a frame
\* indexed by a boolean series keeps the row order).
RECURSIVE Filter(_, _)
Filter(s, mask) ==
    IF s = <<>> THEN <<>>
    ELSE IF Head(s) \in mask THEN <<Head(s)>> \o Filter(Tail(s), mask)
         ELSE Filter(Tail(s), mask)

\* Series.sum(): NaN entries are skipped, the empty sum is 0.
RECURSIVE SeriesSum(_, _)
SeriesSum(s, amt) ==
    IF s = <<>> THEN 0
    ELSE (IF isna(amt[Head(s)]) THEN 0 ELSE amt[Head(s)][1])
         + SeriesSum(Tail(s), amt)


\* Variant: only accounts "with a parent" are candidates, an empty
\* parent_guid counting as none.
RootCandidatesWithParent(rws, par) ==
    Filter(rws, {g \in Range(rws) : par[g] \notin Range(rws) /\ par[g] # EmptyStr})

\* The rows whose parent_guid is not an account_guid of the frame, in row
\* order: account_balances[~parent_guid.isin(account_guid)].account_guid.
RootCandidates(rws, par) ==
    Filter(rws, {g \in Range(rws) : par[g] \notin Range(rws)})

\* Variant: the rows are selected by account_guid instead of parent_guid.
SubordinatesByGuid(rws, par, guid) ==
    Filter(rws, {g \in Range(rws) : g = guid})

\* account_balances[account_balances.parent_guid == guid], in row order.
Subordinates(rws, par, guid) ==
    Filter(rws, {g \in Range(rws) : par[g] = guid})

\* Variant: the test of line 29 is left out.
NeedsAggregationAlways(amt, guid) == TRUE

\* The test of line 29: the amount of the account is NaN.
NeedsAggregation(amt, guid) == isna(amt[guid])

\* Variant: .count() in place of .sum().
AmountCount(rws, par, amt, guid) ==
    Len(Filter(Subordinates(rws, par, guid), {g \in Range(rws) : ~isna(amt[g])}))

\* Variant: the sum is taken over the whole amount column.
AmountSumOfAllRows(rws, par, amt, guid) == SeriesSum(rws, amt)

\* Variant: the amount of the last subordinate row in place of the sum.
AmountOfLastRow(rws, par, amt, guid) ==
    LET sub == Subordinates(rws, par, guid) IN
      IF sub = <<>> \/ isna(amt[sub[Len(sub)]]) THEN 0 ELSE amt[sub[Len(sub)]][1]

\* Line 36: the sum of the amount column over the rows whose parent is guid.
AmountSum(rws, par, amt, guid) == SeriesSum(Subordinates(rws, par, guid), amt)

\* Variant: the assert is stripped (the interpreter run with -O).
AssertStripped(rws, amt) == TRUE

\* Line 41: the condition of the assert.
AssertHolds(rws, amt) == ~ \E g \in Range(rws) : isna(amt[g])

\* A call of aggregate_balance_for_guid(guid) that has not yet run line 29.
NewFrame(guid) == [guid |-> guid, phase |-> "entry", subordinates |-> <<>>]

Top == stack[Len(stack)]

Pop(st) == SubSeq(st, 1, Len(st) - 1)

\* The depth of recursion the model follows (the interpreter's recursion
\* limit is far above the number of accounts of any ledger).
RecursionLimit == MaxAccounts + 2

Columns == [parent_guid |-> parent_guid, amount |-> amount]

\* -------------------------------------------------------------------- Init

\* The frame after the join of line 19 with the given row orders and known
\* amounts: every parent_guid an account of the frame or a guid outside it,
\* every amount a number or NaN.
InitFrame(orders, known) ==
    /\ rows \in orders
    /\ parent_guid \in [Range(rows) -> Range(rows) \cup {Outside}]
    /\ amount \in [Range(rows) -> {NaN} \cup {Num(v) : v \in known}]
    /\ pc = "line24"
    /\ root_guid = EmptyStr
    /\ stack = <<>>
    /\ calls = [g \in Range(rows) |-> 0]
    /\ run = 1
    /\ input = [parent_guid |-> parent_guid, amount |-> amount]
    /\ first = [parent_guid |-> parent_guid, amount |-> amount]

\* Frames named by row, with every known amount.
Init == InitFrame(NamedByRow, KnownAmounts)

\* Frames in every row order, with one known amount.
InitOrders == InitFrame(RowOrders(AllGuids), OrderAmounts)

\* Frames named by row, with one known amount: every shape of the parent
\* links and every choice of the known accounts.
InitShapes == InitFrame(NamedByRow, OrderAmounts)

\* ----------------------------------------------------------------- actions

\* Lines 24-25: the first root candidate in row order becomes root_guid and
\* its parent_guid the empty string; .iloc[0] of an empty selection raises
\* IndexError.
SelectRoot ==
    /\ pc = "line24"
    /\ LET cands == RootCandidates(rows, parent_guid) IN
         IF cands = <<>>
         THEN /\ pc' = "IndexError"
              /\ UNCHANGED <<root_guid, parent_guid>>
         ELSE /\ root_guid' = Head(cands)
              /\ parent_guid' = [parent_guid EXCEPT ![Head(cands)] = EmptyStr]
              /\ pc' = "line40"
    /\ UNCHANGED <<rows, amount, stack, calls, run, input, first>>

\* Line 40: aggregate_balance_for_guid(root_guid) is called.
CallOnRoot ==
    /\ pc = "line40"
    /\ stack' = <<NewFrame(root_guid)>>
    /\ calls' = [calls EXCEPT ![root_guid] = @ + 1]
    /\ pc' = "walk"
    /\ UNCHANGED <<rows, parent_guid, amount, root_guid, run, input, first>>

\* Lines 29 and 32 of the innermost call: an account whose amount is a
\* number returns at once; otherwise its subordinates are fetched.
Enter ==
    /\ pc = "walk"
    /\ stack # <<>>
    /\ Top.phase = "entry"
    /\ IF NeedsAggregation(amount, Top.guid)
       THEN stack' = [stack EXCEPT ![Len(stack)] =
                        [guid |-> Top.guid, phase |-> "loop",
                         subordinates |-> Subordinates(rows, parent_guid, Top.guid)]]
       ELSE stack' = Pop(stack)
    /\ UNCHANGED <<rows, parent_guid, amount, pc, root_guid, calls, run, input, first>>

\* Lines 33-34: the loop takes the next subordinate row and calls
\* aggregate_balance_for_guid on it.
Descend ==
    /\ pc = "walk"
    /\ stack # <<>>
    /\ Top.phase = "loop"
    /\ Top.subordinates # <<>>
    /\ Len(stack) < RecursionLimit
    /\ LET sub == Head(Top.subordinates) IN
         /\ stack' = Append([stack EXCEPT ![Len(stack)].subordinates = Tail(@)],
                            NewFrame(sub))
         /\ calls' = [calls EXCEPT ![sub] = @ + 1]
    /\ UNCHANGED <<rows, parent_guid, amount, pc, root_guid, run, input, first>>

\* Lines 36-37: after the loop the amounts of the subordinates are summed
\* and written to the account; the call returns.
Assign ==
    /\ pc = "walk"
    /\ stack # <<>>
    /\ Top.phase = "loop"
    /\ Top.subordinates = <<>>
    /\ amount' = [amount EXCEPT ![Top.guid] =
                    Num(AmountSum(rows, parent_guid, amount, Top.guid))]
    /\ stack' = Pop(stack)
    /\ UNCHANGED <<rows, parent_guid, pc, root_guid, calls, run, input, first>>

\* The call of line 40 has returned.
ReturnToCaller ==
    /\ pc = "walk"
    /\ stack = <<>>
    /\ pc' = "line41"
    /\ UNCHANGED <<rows, parent_guid, amount, root_guid, stack, calls, run, input, first>>

\* Line 41: the assert; past it the function goes on to plot and returns.
CheckAssert ==
    /\ pc = "line41"
    /\ pc' = IF AssertHolds(rows, amount) THEN "returned" ELSE "AssertionError"
    /\ UNCHANGED <<rows, parent_guid, amount, root_guid, stack, calls, run, input, first>>

\* Lines 24-41 are run again on the frame a successful first run left.
RunAgain ==
    /\ pc = "returned"
    /\ run = 1
    /\ run' = 2
    /\ first' = Columns
    /\ pc' = "line24"
    /\ root_guid' = EmptyStr
    /\ calls' = [g \in Range(rows) |-> 0]
    /\ UNCHANGED <<rows, parent_guid, amount, stack, input>>

Next ==
    \/ SelectRoot
    \/ CallOnRoot
    \/ Enter
    \/ Descend
    \/ Assign
    \/ ReturnToCaller
    \/ CheckAssert
    \/ RunAgain

Spec == Init /\ [][Next]_vars

\* The same steps from the frames in every row order.
OrderSpec == InitOrders /\ [][Next]_vars

\* The interpreter runs the function to its end: no step waits on anything.
FairSpec == InitShapes /\ [][Next]_vars /\ WF_vars(Next)

\* ------------------------------------------- vocabulary of the properties

Accounts == account_guid

\* The sum of f over the set S, taken in no particular order.
RECURSIVE SumOver(_, _)
SumOver(S, f) ==
    IF S = {} THEN 0
    ELSE LET x == CHOOSE y \in S : TRUE IN f[x] + SumOver(S \ {x}, f)

\* The direct children of g under the parent links par.
Children(par, g) == {c \in DOMAIN par : par[c] = g}

\* The accounts whose parent is no account of the set.
Roots(par) == {g \in DOMAIN par : par[g] \notin DOMAIN par}

\* The n-th ancestor of g (g itself for n = 0), or Outside once the chain
\* has left the set.
RECURSIVE Ancestor(_, _, _)
Ancestor(par, g, n) ==
    IF n = 0 \/ g \notin DOMAIN par THEN (IF g \in DOMAIN par THEN g ELSE Outside)
    ELSE Ancestor(par, par[g], n - 1)

\* The ancestor chain of g loops back to g.
OnCycle(par, g) == \E n \in 1..Cardinality(DOMAIN par) : Ancestor(par, g, n) = g

HasCycle(par) == \E g \in DOMAIN par : OnCycle(par, g)

\* A tree: exactly one root and no cycle.
IsTree(par) == Cardinality(Roots(par)) = 1 /\ ~HasCycle(par)

TreeRoot(par) == CHOOSE g \in Roots(par) : TRUE

Known(g) == ~isna(input.amount[g])

Defined(g) == ~isna(amount[g])

Leaves(par) == {g \in DOMAIN par : Children(par, g) = {}}

\* The walk of line 40 is over (the assert may or may not have passed).
Walked == pc \in {"line41", "returned", "AssertionError"}

\* The sum of the present amounts of the direct children of g.
ChildrenSum(g) ==
    SumOver(Children(parent_guid, g),
            [c \in Children(parent_guid, g) |-> amount[c][1]])

\* ------------------------------------------------------------- properties

\* C1: for every tree (one root, no cycle) and every assignment of known
\* amounts, once the aggregation started at the root has finished (line 40
\* has returned), every account has a defined amount.
C1_AllDefinedAfterWalk ==
    (run = 1 /\ pc = "line41" /\ IsTree(input.parent_guid))
        => \A g \in Accounts : Defined(g)

\* C2 as stated: for every tree, after the aggregation the amount of the
\* root is the sum of the originally known amounts of the leaves.
C2_RootIsKnownLeafSum ==
    (run = 1 /\ pc = "returned" /\ IsTree(input.parent_guid))
        => amount[root_guid] =
             Num(SumOver({g \in Leaves(input.parent_guid) : Known(g)},
                         [g \in Accounts |-> IF Known(g) THEN input.amount[g][1] ELSE 0]))

\* Every originally known amount sits on a leaf.
OnlyLeavesKnown == \A g \in Accounts : Known(g) => g \in Leaves(input.parent_guid)

\* C2 amended: for every tree in which every originally known amount sits
\* on a leaf, the walk leaves the root with the sum of the originally
\* known amounts of the leaves, and the aggregation returns normally.
C2_RootIsKnownLeafSumWhenOnlyLeavesKnown ==
    (run = 1 /\ Walked /\ IsTree(input.parent_guid) /\ OnlyLeavesKnown)
        => /\ pc # "AssertionError"
           /\ amount[root_guid] =
                Num(SumOver({g \in Leaves(input.parent_guid) : Known(g)},
                            [g \in Accounts |-> IF Known(g) THEN input.amount[g][1] ELSE 0]))

\* A tree with an unknown root over two known leaves of different non-zero
\* amounts has been aggregated.
C2_Witness ==
    /\ run = 1 /\ pc = "returned" /\ IsTree(input.parent_guid) /\ OnlyLeavesKnown
    /\ ~Known(root_guid)
    /\ \E g, h \in Leaves(input.parent_guid) :
         /\ g # h /\ Known(g) /\ Known(h)
         /\ input.amount[g] # input.amount[h]
         /\ input.amount[g] # Num(0) /\ input.amount[h] # Num(0)

\* C3: once the walk is over, every originally unknown account that has an
\* amount has the sum of the amounts of its direct children, all of them
\* defined (0 when it has no child); when the aggregation returns normally
\* every originally unknown account has an amount.
C3_UnknownIsSumOfChildren ==
    Walked =>
        \A g \in Accounts :
            ~Known(g) =>
                /\ pc = "returned" => Defined(g)
                /\ Defined(g) =>
                     /\ \A c \in Children(parent_guid, g) : Defined(c)
                     /\ amount[g] = Num(ChildrenSum(g))

\* A normal return where an unknown account without children got 0 and an
\* unknown account with two children got their non-zero sum.
C3_Witness ==
    /\ run = 1 /\ pc = "returned"
    /\ \E g \in Accounts :
         ~Known(g) /\ Children(parent_guid, g) = {} /\ amount[g] = Num(0)
    /\ \E h \in Accounts :
         /\ ~Known(h) /\ Cardinality(Children(parent_guid, h)) >= 2
         /\ amount[h] # Num(0)

\* C4: an amount that was known on input is never changed, whether or not
\* the account has children.
C4_KnownNeverChanged ==
    \A g \in Accounts : Known(g) => amount[g] = input.amount[g]

\* A normal return where a known account kept an amount that is not the
\* sum of the amounts of its children.
C4_Witness ==
    /\ pc = "returned"
    /\ \E g \in Accounts :
         /\ Known(g) /\ Children(parent_guid, g) # {}
         /\ \A c \in Children(parent_guid, g) : Defined(c)
         /\ amount[g] # Num(ChildrenSum(g))

\* C5: when the number of accounts whose parent is no account of the set is
\* zero or above one, the aggregation reports an error and aborts; it does
\* not take one candidate as root and return normally.
C5_RootCountChecked ==
    (run = 1 /\ Cardinality(Roots(input.parent_guid)) # 1) => pc # "returned"

\* C6: when the ancestor chain of some account loops back to it, whatever
\* amounts are known, the aggregation does not return normally.
C6_CycleIsError ==
    (run = 1 /\ HasCycle(input.parent_guid)) => pc # "returned"

\* C7: for every input, whenever the aggregation returns normally no
\* account has an undefined amount; a walk that leaves an account
\* undefined ends in the failed assert.
C7_NoUndefinedOnReturn ==
    /\ [](pc = "returned" => \A g \in Accounts : Defined(g))
    /\ [][(pc = "line41" /\ \E g \in Accounts : ~Defined(g))
            => pc' = "AssertionError"]_vars

\* The assert has failed on a frame with one root candidate, an account
\* being left undefined by the walk.
C7_Witness ==
    /\ pc = "AssertionError"
    /\ Cardinality(Roots(input.parent_guid)) = 1
    /\ \E g \in Accounts : ~Defined(g)

\* C8: a second aggregation on the output of a successful first one (root
\* selection, normalisation, walk, assert) runs to a normal return and
\* never changes an amount or a parent reference.
C8_SecondRunChangesNothing ==
    run = 2 =>
        /\ amount = first.amount
        /\ parent_guid = first.parent_guid
        /\ pc \notin {"IndexError", "AssertionError"}

\* The second run has returned on a frame with two root candidates in
\* which the first run computed an amount.
C8_Witness ==
    /\ run = 2 /\ pc = "returned"
    /\ Cardinality(Roots(input.parent_guid)) >= 2
    /\ \E g \in Accounts : ~Known(g)

\* The accounts the walk from the root of a tree reaches whatever the order
\* of visits: the root, and the children of reached unknown accounts.
RECURSIVE Reached(_)
Reached(g) ==
    \/ g = TreeRoot(input.parent_guid)
    \/ /\ input.parent_guid[g] \in Accounts
       /\ ~Known(input.parent_guid[g])
       /\ Reached(input.parent_guid[g])

\* The amount of a reached account of a tree, by its subtree alone.
RECURSIVE Rollup(_)
Rollup(g) ==
    IF Known(g) THEN input.amount[g][1]
    ELSE SumOver(Children(input.parent_guid, g),
                 [c \in Children(input.parent_guid, g) |-> Rollup(c)])

\* C9: on every tree, in every row order (the order in which the children
\* of an account are visited), the walk leaves every account with an
\* amount that depends on the tree and the known amounts alone: a known
\* account its own, a reached unknown account the roll-up of its subtree,
\* an unreached unknown account none.
C9_AmountsIndependentOfOrder ==
    (run = 1 /\ Walked /\ IsTree(input.parent_guid)) =>
        \A g \in Accounts :
            amount[g] = IF Known(g) THEN input.amount[g]
                        ELSE IF Reached(g) THEN Num(Rollup(g))
                        ELSE NaN

\* A tree was aggregated whose root has two children of which the later
\* row holds the known amount and the earlier row an unknown account, the
\* rows being in an order other than that of the guid names.
C9_Witness ==
    /\ run = 1 /\ pc = "returned" /\ IsTree(input.parent_guid)
    /\ Len(rows) = MaxAccounts
    /\ rows # SubSeq(GuidNames, 1, MaxAccounts)
    /\ ~Known(root_guid)
    /\ \E i, j \in 1..Len(rows) :
         /\ i < j
         /\ input.parent_guid[rows[i]] = root_guid
         /\ input.parent_guid[rows[j]] = root_guid
         /\ ~Known(rows[i]) /\ Known(rows[j])

\* C10: once a root is chosen the walk from it ends (line 40 returns), also
\* when parent links elsewhere form cycles: no account is entered more than
\* once and none on a cycle of the frame as walked is entered at all.
C10_WalkTerminates ==
    /\ [](\A g \in Accounts :
            /\ calls[g] <= 1
            /\ OnCycle(parent_guid, g) => calls[g] = 0)
    /\ [](Len(stack) <= Cardinality(Accounts))
    /\ (pc = "walk") ~> (pc = "line41")

\* The walk has ended on a frame with a root and a cycle of unknown accounts.
C10_Witness ==
    /\ run = 1 /\ pc = "line41"
    /\ \E g \in Accounts : OnCycle(parent_guid, g) /\ ~Known(g)
    /\ \E g \in Accounts : calls[g] = 1 /\ ~Known(g) /\ Children(parent_guid, g) # {}

\* The proper ancestors of g among the accounts, by the input parent links.
ProperAncestors(g) ==
    {Ancestor(input.parent_guid, g, n) : n \in 1..Cardinality(Accounts)} \cap Accounts

\* The known accounts none of whose proper ancestors is known.
TopmostKnown == {g \in Accounts : Known(g) /\ \A h \in ProperAncestors(g) : ~Known(h)}

\* C11: on a tree with one root on which the aggregation returns normally,
\* the amount of the root is the sum of the input amounts of the topmost
\* known accounts; no account below a known account was ever called, so its
\* amount went into no total.
C11_RootIsTopmostKnownSum ==
    (run = 1 /\ pc = "returned" /\ IsTree(input.parent_guid)) =>
        /\ amount[root_guid] =
             Num(SumOver(TopmostKnown,
                         [g \in Accounts |-> IF Known(g) THEN input.amount[g][1] ELSE 0]))
        /\ \A g \in Accounts :
             (\E h \in ProperAncestors(g) : Known(h)) => calls[g] = 0

\* A tree was aggregated whose unknown root got the amount of a known child
\* that has a known child of its own with another, non-zero amount.
C11_Witness ==
    /\ run = 1 /\ pc = "returned" /\ IsTree(input.parent_guid)
    /\ ~Known(root_guid)
    /\ \E g, h \in Accounts :
         /\ input.parent_guid[g] = root_guid /\ input.parent_guid[h] = g
         /\ Known(g) /\ Known(h)
         /\ input.amount[h] # Num(0) /\ input.amount[h] # input.amount[g]
         /\ amount[root_guid] = input.amount[g]

=============================================================================
